---- MODULE Spec2Model ----
(***************************************************************************)
(* A model of the two utilities of gen_pipeline:                           *)
(*   src/utils/process_yaml_api.py  (process_yaml_with_api,                *)
(*        get_nested_value, create_nested_structure)                       *)
(*   src/utils/update_file_path.py  (update_file_paths,                    *)
(*        update_file_paths_advanced)                                      *)
(* Three specifications share the module: SpecNested applies               *)
(* get_nested_value to every bounded document and key path, SpecBridge     *)
(* runs one call of process_yaml_with_api step by step, SpecLocator runs   *)
(* one call of either File Locator variant row by row.                     *)
(***************************************************************************)
EXTENDS Integers, Sequences, FiniteSets, TLC

VARIABLES
    \* ---- get_nested_value applied on its own
    n_pc, n_data, n_keys, n_result,
    \* ---- process_yaml_with_api: arguments
    input_keys, output_keys, api_method, api_params, request_body_template,
    \* ---- process_yaml_with_api: the world it runs in
    input_file, output_file, response,
    \* ---- process_yaml_with_api: locals, position and outcome
    pc, input_data, input_text, request_body, sent, api_result,
    ret, diag, escaped, events,
    \* ---- File Locator: arguments, the directory, locals and outcome
    variant, df, df0, target_dir, file_extensions, create_column,
    l_pc, cursor, updated_count, raised, writes

nestedVars == <<n_pc, n_data, n_keys, n_result>>
bridgeVars == <<input_keys, output_keys, api_method, api_params,
                request_body_template, input_file, output_file, response,
                pc, input_data, input_text, request_body, sent, api_result,
                ret, diag, escaped, events>>
locatorVars == <<variant, df, df0, target_dir, file_extensions, create_column,
                 l_pc, cursor, updated_count, raised, writes>>
vars == <<nestedVars, bridgeVars, locatorVars>>

(***************************************************************************)
(* Bounds of the model.                                                    *)
(***************************************************************************)
MaxPath == 2     \* longest key path
MaxRows == 2     \* most rows of a table
MaxFiles == 2    \* most entries of the search directory

(***************************************************************************)
(* Python values.  Every value is a record with a tag, so that any two     *)
(* values can be compared: None, a str, a dict (a function from keys).     *)
(***************************************************************************)
None == [tag |-> "none"]
Str(s) == [tag |-> "str", val |-> s]
Dict(f) == [tag |-> "dict", items |-> f]
EmptyMap == [k \in {} |-> None]
IsDict(v) == v.tag = "dict"
\* Python truthiness of an optional dict argument (None and {} are falsy).
Truthy(v) == IsDict(v) /\ DOMAIN v.items # {}

Keys == {"a", "b"}
Leaves == {None, Str("hello")}
MappingsOver(V) == UNION {[K -> V] : K \in SUBSET Keys}
Docs1 == {Dict(f) : f \in MappingsOver(Leaves)}
Docs2 == {Dict(f) : f \in MappingsOver(Leaves \cup Docs1)}
\* What yaml.safe_load can hand back: a scalar, null (an empty file), or a
\* mapping nested up to two levels.
Docs == Leaves \cup Docs2
Paths == UNION {[1..n -> Keys] : n \in 0..MaxPath}

(***************************************************************************)
(* get_nested_value: walk the key path; a step from a non-dict or to a     *)
(* missing key returns None, the end of the path returns the value reached.*)
(***************************************************************************)
RECURSIVE get_nested_value(_, _)
get_nested_value(data, keys) ==
    IF keys = <<>> THEN data
    ELSE IF IsDict(data) /\ Head(keys) \in DOMAIN data.items
         THEN get_nested_value(data.items[Head(keys)], Tail(keys))
         ELSE None

(***************************************************************************)
(* create_nested_structure: an empty path returns the value itself;        *)
(* otherwise one dict per key, the last key holding the value.             *)
(***************************************************************************)
RECURSIVE create_nested_structure(_, _)
create_nested_structure(keys, value) ==
    IF keys = <<>> THEN value
    ELSE Dict([k \in {Head(keys)} |->
                 create_nested_structure(Tail(keys), value)])

(***************************************************************************)
(* SpecNested: get_nested_value on every document and key path.            *)
(***************************************************************************)
NestedIdle ==
    /\ n_pc = "idle"
    /\ n_data = None
    /\ n_keys = <<>>
    /\ n_result = None

NestedCall ==
    /\ n_pc = "call"
    /\ n_result' = get_nested_value(n_data, n_keys)
    /\ n_pc' = "returned"
    /\ UNCHANGED <<n_data, n_keys>>
    /\ UNCHANGED <<bridgeVars, locatorVars>>

(***************************************************************************)
(* Text.  Method names and file names are sequences of one-character       *)
(* strings, so that upper(), lower(), stem and suffix are computed.        *)
(***************************************************************************)
LowerAlphabet == <<"a","b","c","d","e","f","g","h","i","j","k","l","m",
                   "n","o","p","q","r","s","t","u","v","w","x","y","z">>
UpperAlphabet == <<"A","B","C","D","E","F","G","H","I","J","K","L","M",
                   "N","O","P","Q","R","S","T","U","V","W","X","Y","Z">>
UpperChar(c) ==
    IF \E i \in DOMAIN LowerAlphabet : LowerAlphabet[i] = c
    THEN UpperAlphabet[CHOOSE i \in DOMAIN LowerAlphabet : LowerAlphabet[i] = c]
    ELSE c
LowerChar(c) ==
    IF \E i \in DOMAIN UpperAlphabet : UpperAlphabet[i] = c
    THEN LowerAlphabet[CHOOSE i \in DOMAIN UpperAlphabet : UpperAlphabet[i] = c]
    ELSE c
\* str.upper() and str.lower()
Upper(s) == [i \in DOMAIN s |-> UpperChar(s[i])]
Lower(s) == [i \in DOMAIN s |-> LowerChar(s[i])]

(***************************************************************************)
(* process_yaml_with_api: the sets its arguments and its world are drawn   *)
(* from.                                                                   *)
(***************************************************************************)
Map1(k, v) == [x \in {k} |-> v]
Map2(k1, v1, k2, v2) == [x \in {k1, k2} |-> IF x = k1 THEN v1 ELSE v2]
\* A string holding a double quote: its text breaks a JSON string literal.
QuoteText == "say \"hi\""
BridgeDocs ==
    { None,
      Str("hello"),
      Dict(Map1("a", None)),
      Dict(Map1("a", Str(QuoteText))),
      Dict(Map1("a", Dict(Map1("b", Str("hello"))))),
      Dict(Map2("a", Str("hello"), "b", Dict(Map1("a", Str(QuoteText))))) }

Methods == { <<"G","E","T">>, <<"g","e","t">>, <<"G","e","t">>,
             <<"P","O","S","T">>, <<"p","u","t">> }
ApiParams ==
    { None,
      Dict(EmptyMap),
      Dict(Map1("q", Str("1"))),
      Dict(Map2("text", Str("old"), "q", Str("1"))) }

\* A template value is a string cut into parts; the part Placeholder is the
\* literal "{input_text}".
Placeholder == "{input_text}"
Tpl(parts) == [tag |-> "tpl", parts |-> parts]
Templates ==
    { None,
      Dict(EmptyMap),
      Dict(Map1("query", Tpl(<<Placeholder>>))),
      Dict(Map2("q", Tpl(<<"ask: ", Placeholder, Placeholder>>),
                "lang", Tpl(<<"ko">>))) }

OutKeySeq == <<"x", "y", "z", "w">>
OutPaths == {SubSeq(OutKeySeq, 1, n) : n \in 0..MaxPath}

NotJson == [tag |-> "notjson"]
Statuses == {101, 200, 204, 304, 404, 503}
ResponseBodies == {NotJson, Str("ok"), Dict(Map1("echo", Str("hello")))}
NoResponse == [tag |-> "noresponse"]
NoRequest == [tag |-> "norequest"]
NoBody == [tag |-> "nobody"]
Untouched == [tag |-> "untouched"]
Unread == [kind |-> "unread", doc |-> None]

(***************************************************************************)
(* The try/except of process_yaml_with_api.  ExceptionBases gives the      *)
(* classes an exception is an instance of; ExceptClause is the first       *)
(* except clause that matches, in the order the code lists them.           *)
(***************************************************************************)
ExceptionBases(exc) ==
    CASE exc = "FileNotFoundError" -> {"FileNotFoundError", "OSError", "Exception"}
      [] exc = "PermissionError" -> {"PermissionError", "OSError", "Exception"}
      [] exc = "ScannerError" -> {"ScannerError", "YAMLError", "Exception"}
      [] exc = "JSONDecodeError" -> {"JSONDecodeError", "ValueError", "Exception"}
      [] exc = "ConnectionError" ->
            {"ConnectionError", "RequestException", "OSError", "Exception"}
      [] exc = "HTTPError" ->
            {"HTTPError", "RequestException", "OSError", "Exception"}
      [] exc = "RequestsJSONDecodeError" ->
            {"RequestsJSONDecodeError", "RequestException", "JSONDecodeError",
             "ValueError", "OSError", "Exception"}

ExceptClauseNoCatchAll(exc) ==
    IF "FileNotFoundError" \in ExceptionBases(exc) THEN "file_not_found"
    ELSE IF "RequestException" \in ExceptionBases(exc) THEN "api_error"
    ELSE IF "YAMLError" \in ExceptionBases(exc) THEN "yaml_error"
    ELSE "uncaught"

ExceptClause(exc) ==
    IF "FileNotFoundError" \in ExceptionBases(exc) THEN "file_not_found"
    ELSE IF "RequestException" \in ExceptionBases(exc) THEN "api_error"
    ELSE IF "YAMLError" \in ExceptionBases(exc) THEN "yaml_error"
    ELSE IF "Exception" \in ExceptionBases(exc) THEN "unexpected"
    ELSE "uncaught"

\* An exception raised inside the try block: the matching clause prints its
\* diagnostic and returns False; with no matching clause it leaves the call.
Raise(exc) ==
    IF ExceptClause(exc) = "uncaught"
    THEN /\ pc' = "raised"
         /\ escaped' = exc
         /\ UNCHANGED <<ret, diag>>
    ELSE /\ pc' = "done"
         /\ ret' = FALSE
         /\ diag' = ExceptClause(exc)
         /\ UNCHANGED escaped

\* The statements of the try block, in order.
StepAfterWriteFirst(p) ==
    CASE p = "read_input" -> "extract"
      [] p = "extract" -> "build_body"
      [] p = "build_body" -> "dispatch"
      [] p = "dispatch" -> "write_output"
      [] p = "write_output" -> "check_status"
      [] p = "check_status" -> "parse_json"
      [] p = "parse_json" -> "done"

StepAfter(p) ==
    CASE p = "read_input" -> "extract"
      [] p = "extract" -> "build_body"
      [] p = "build_body" -> "dispatch"
      [] p = "dispatch" -> "check_status"
      [] p = "check_status" -> "parse_json"
      [] p = "parse_json" -> "write_output"
      [] p = "write_output" -> "done"

(***************************************************************************)
(* Request body construction (step 3 of process_yaml_with_api).            *)
(***************************************************************************)
\* Whether str(v) holds a character that ends or breaks a JSON string.
RECURSIVE JsonBreaking(_)
JsonBreaking(v) ==
    CASE v.tag = "str" -> v.val = QuoteText
      [] v.tag = "dict" -> \E k \in DOMAIN v.items : JsonBreaking(v.items[k])
      [] OTHER -> FALSE

HasPlaceholder(template) ==
    \E k \in DOMAIN template.items :
        \E i \in DOMAIN template.items[k].parts :
            template.items[k].parts[i] = Placeholder

\* str(v), kept as the value it was made from.
PyStr(v) == [tag |-> "pystr", of |-> v]

\* str.replace on one template string: every occurrence is replaced.
ReplacePlaceholder(tpl, text) ==
    [tag |-> "text",
     parts |-> [i \in DOMAIN tpl.parts |->
                  IF tpl.parts[i] = Placeholder THEN PyStr(text)
                  ELSE Str(tpl.parts[i])]]

\* json.loads(json.dumps(template).replace('{input_text}', str(input_text))):
\* the text no longer parses when a replaced occurrence brought in a quote.
TemplateParses(template, text) ==
    ~(HasPlaceholder(template) /\ JsonBreaking(text))

TemplateBody(template, text) ==
    Dict([k \in DOMAIN template.items |->
            ReplacePlaceholder(template.items[k], text)])

DefaultBody(text) == Dict(Map1("text", text))

\* dict.update: the argument's entries replace the receiver's.
DictUpdateKeepOld(p, b) ==
    Dict([k \in DOMAIN p.items \cup DOMAIN b.items |->
            IF k \in DOMAIN p.items THEN p.items[k] ELSE b.items[k]])

DictUpdate(p, b) ==
    Dict([k \in DOMAIN p.items \cup DOMAIN b.items |->
            IF k \in DOMAIN b.items THEN b.items[k] ELSE p.items[k]])

\* Response.raise_for_status raises HTTPError for 4xx and 5xx only.
RaisesForStatus(status) == 400 <= status /\ status < 600

(***************************************************************************)
(* process_yaml_with_api, one action per statement group.                  *)
(***************************************************************************)
BridgeIdle ==
    /\ input_keys = <<>>
    /\ output_keys = <<>>
    /\ api_method = <<>>
    /\ api_params = None
    /\ request_body_template = None
    /\ input_file = Unread
    /\ output_file = [state |-> "unknown", content |-> Untouched]
    /\ response = NoResponse
    /\ pc = "idle"
    /\ input_data = None
    /\ input_text = None
    /\ request_body = None
    /\ sent = NoRequest
    /\ api_result = None
    /\ ret = FALSE
    /\ diag = "none"
    /\ escaped = "none"
    /\ events = <<>>

BridgeInit ==
    /\ input_keys \in Paths
    /\ output_keys \in OutPaths
    /\ api_method \in Methods
    /\ api_params \in ApiParams
    /\ request_body_template \in Templates
    /\ input_file = Unread
    /\ output_file = [state |-> "unknown", content |-> Untouched]
    /\ response = NoResponse
    /\ pc = "read_input"
    /\ input_data = None
    /\ input_text = None
    /\ request_body = None
    /\ sent = NoRequest
    /\ api_result = None
    /\ ret = FALSE
    /\ diag = "none"
    /\ escaped = "none"
    /\ events = <<>>

Proceed(p) ==
    /\ pc' = StepAfter(p)
    /\ UNCHANGED <<ret, diag, escaped>>

bridgeArgs == <<input_keys, output_keys, api_method, request_body_template>>

\* lines 38-39: open the input file and yaml.safe_load it
ReadInput ==
    /\ pc = "read_input"
    /\ \/ /\ input_file' = [kind |-> "missing", doc |-> None]
          /\ Raise("FileNotFoundError")
          /\ UNCHANGED <<input_data, events>>
       \/ /\ input_file' = [kind |-> "denied", doc |-> None]
          /\ Raise("PermissionError")
          /\ UNCHANGED <<input_data, events>>
       \/ /\ input_file' = [kind |-> "malformed", doc |-> None]
          /\ Raise("ScannerError")
          /\ UNCHANGED <<input_data, events>>
       \/ \E d \in BridgeDocs :
             /\ input_file' = [kind |-> "ok", doc |-> d]
             /\ input_data' = d
             /\ events' = Append(events, "read")
             /\ Proceed("read_input")
    /\ UNCHANGED <<bridgeArgs, api_params, output_file, response, input_text,
                   request_body, sent, api_result>>
    /\ UNCHANGED <<nestedVars, locatorVars>>

\* lines 42-47: extract input_text; None is reported and returns False
ExtractInput ==
    /\ pc = "extract"
    /\ input_text' = get_nested_value(input_data, input_keys)
    /\ IF input_text' = None
       THEN /\ pc' = "done"
            /\ ret' = FALSE
            /\ diag' = "key_not_found"
            /\ UNCHANGED <<escaped, events>>
       ELSE /\ events' = Append(events, "extracted")
            /\ Proceed("extract")
    /\ UNCHANGED <<bridgeArgs, api_params, input_file, output_file, response,
                   input_data, request_body, sent, api_result>>
    /\ UNCHANGED <<nestedVars, locatorVars>>

\* lines 50-60: the request body, from the template or the default
BuildBody ==
    /\ pc = "build_body"
    /\ IF Truthy(request_body_template)
       THEN IF TemplateParses(request_body_template, input_text)
            THEN /\ request_body' =
                       TemplateBody(request_body_template, input_text)
                 /\ events' = Append(events, "body")
                 /\ Proceed("build_body")
            ELSE /\ Raise("JSONDecodeError")
                 /\ UNCHANGED <<request_body, events>>
       ELSE /\ request_body' = DefaultBody(input_text)
            /\ events' = Append(events, "body")
            /\ Proceed("build_body")
    /\ UNCHANGED <<bridgeArgs, api_params, input_file, output_file, response,
                   input_data, input_text, sent, api_result>>
    /\ UNCHANGED <<nestedVars, locatorVars>>

\* lines 65-76: what is handed to requests.  For GET, params is the caller's
\* dict itself when that is non-empty (update changes it in place), else a
\* fresh dict.  The headers (line 50) are passed through as given and read
\* by nothing else here; they are left out.
GetRequest ==
    [method |-> <<"G","E","T">>,
     params |-> DictUpdate(IF Truthy(api_params) THEN api_params
                           ELSE Dict(EmptyMap), request_body),
     json |-> NoBody]

OtherRequest ==
    [method |-> Upper(api_method), params |-> api_params, json |-> request_body]

Dispatch ==
    /\ pc = "dispatch"
    /\ IF Upper(api_method) = <<"G","E","T">>
       THEN /\ sent' = GetRequest
            /\ api_params' = IF Truthy(api_params) THEN GetRequest.params
                             ELSE api_params
       ELSE /\ sent' = OtherRequest
            /\ UNCHANGED api_params
    /\ events' = Append(events, "dispatch")
    /\ \/ /\ Raise("ConnectionError")
          /\ UNCHANGED response
       \/ \E s \in Statuses, b \in ResponseBodies :
             /\ response' = [status |-> s, body |-> b]
             /\ Proceed("dispatch")
    /\ UNCHANGED <<bridgeArgs, input_file, output_file, input_data, input_text,
                   request_body, api_result>>
    /\ UNCHANGED <<nestedVars, locatorVars>>

\* line 79: response.raise_for_status()
CheckStatus ==
    /\ pc = "check_status"
    /\ IF RaisesForStatus(response.status)
       THEN /\ Raise("HTTPError")
            /\ UNCHANGED events
       ELSE /\ events' = Append(events, "status_ok")
            /\ Proceed("check_status")
    /\ UNCHANGED <<bridgeArgs, api_params, input_file, output_file, response,
                   input_data, input_text, request_body, sent, api_result>>
    /\ UNCHANGED <<nestedVars, locatorVars>>

\* line 80: response.json(); the exception class depends on the requests
\* version (its own JSONDecodeError, or the json module's)
ParseJson ==
    /\ pc = "parse_json"
    /\ IF response.body = NotJson
       THEN /\ \E exc \in {"RequestsJSONDecodeError", "JSONDecodeError"} :
                  Raise(exc)
            /\ UNCHANGED <<api_result, events>>
       ELSE /\ api_result' = response.body
            /\ events' = Append(events, "json_ok")
            /\ Proceed("parse_json")
    /\ UNCHANGED <<bridgeArgs, api_params, input_file, output_file, response,
                   input_data, input_text, request_body, sent>>
    /\ UNCHANGED <<nestedVars, locatorVars>>

\* lines 86-92: build the output document, open the output file for writing,
\* dump, return True
WriteOutput ==
    /\ pc = "write_output"
    /\ \/ /\ output_file' =
                [state |-> "writable",
                 content |-> create_nested_structure(output_keys, api_result)]
          /\ events' = Append(events, "open_output")
          /\ pc' = StepAfter("write_output")
          /\ ret' = TRUE
          /\ diag' = "saved"
          /\ UNCHANGED escaped
       \/ /\ output_file' = [state |-> "denied", content |-> Untouched]
          /\ Raise("PermissionError")
          /\ UNCHANGED events
       \/ /\ output_file' = [state |-> "nodir", content |-> Untouched]
          /\ Raise("FileNotFoundError")
          /\ UNCHANGED events
    /\ UNCHANGED <<bridgeArgs, api_params, input_file, response, input_data,
                   input_text, request_body, sent, api_result>>
    /\ UNCHANGED <<nestedVars, locatorVars>>

(***************************************************************************)
(* File Locator: names, patterns and extensions.                           *)
(***************************************************************************)
Digits == <<"0","1","2","3","4","5","6","7","8","9">>
\* str() of a non-negative integer identifier
RECURSIVE IntToStr(_)
IntToStr(n) ==
    IF n < 10 THEN <<Digits[n + 1]>>
    ELSE IntToStr(n \div 10) \o <<Digits[(n % 10) + 1]>>

\* str.rfind('.') as a 1-based index, 0 when there is no dot
LastDot(name) ==
    IF \E i \in DOMAIN name : name[i] = "."
    THEN CHOOSE i \in DOMAIN name :
            /\ name[i] = "."
            /\ \A j \in DOMAIN name : name[j] = "." => j <= i
    ELSE 0

\* pathlib's suffix and stem: the last dot splits the name unless it is the
\* first or the last character
HasSuffix(name) == 1 < LastDot(name) /\ LastDot(name) < Len(name)
Suffix(name) ==
    IF HasSuffix(name) THEN SubSeq(name, LastDot(name), Len(name)) ELSE <<>>
Stem(name) ==
    IF HasSuffix(name) THEN SubSeq(name, 1, LastDot(name) - 1) ELSE name

StartsWith(s, prefix) ==
    Len(prefix) <= Len(s) /\ SubSeq(s, 1, Len(prefix)) = prefix

\* the order of str comparison on the characters of the model's names
AsciiOrder == <<".">> \o Digits \o UpperAlphabet \o <<"_">> \o LowerAlphabet
CharOrd(c) == CHOOSE i \in DOMAIN AsciiOrder : AsciiOrder[i] = c
RECURSIVE LexLess(_, _)
LexLess(a, b) ==
    IF b = <<>> THEN FALSE
    ELSE IF a = <<>> THEN TRUE
    ELSE IF Head(a) = Head(b) THEN LexLess(Tail(a), Tail(b))
    ELSE CharOrd(Head(a)) < CharOrd(Head(b))

target_col_name == "file_path"
file_name_prefix == <<"r","_">>
\* f"{file_name_prefix}{test_id}"
FilePattern(test_id) == file_name_prefix \o IntToStr(test_id)

Ids == {7, 8}
File(name) == [name |-> name, is_file |-> TRUE]
SubDir(name) == [name |-> name, is_file |-> FALSE]
\* The entries a search directory is made of: r_7.json, r_7.csv, r_7.CSV,
\* r_70.csv (prefix-only match of identifier 7) and a subdirectory r_7.txt.
EntryPool ==
    { File(<<"r","_","7",".","j","s","o","n">>),
      File(<<"r","_","7",".","c","s","v">>),
      File(<<"r","_","7",".","C","S","V">>),
      File(<<"r","_","7","0",".","c","s","v">>),
      SubDir(<<"r","_","7",".","t","x","t">>) }
Directories ==
    {[kind |-> "missing", entries |-> {}], [kind |-> "file", entries |-> {}]}
    \cup {[kind |-> "dir", entries |-> E] :
            E \in {S \in SUBSET EntryPool : Cardinality(S) <= MaxFiles}}

\* The file_extensions argument: None, or a list as the caller wrote it.
NoExtensions == [given |-> FALSE, list |-> <<>>]
Extensions(l) == [given |-> TRUE, list |-> l]
ExtensionArgs ==
    { NoExtensions,
      Extensions(<<>>),
      Extensions(<< <<".","j","s","o","n">>, <<".","c","s","v">> >>),
      Extensions(<< <<"c","s","v">>, <<"J","S","O","N">> >>),
      Extensions(<< <<".","t","x","t">> >>) }

\* lines 131-133: lower-case each extension and give it its leading dot
NormalizeExtension(ext) ==
    IF StartsWith(ext, <<".">>) THEN Lower(ext) ELSE <<".">> \o Lower(ext)
NormalizeExtensions(exts) ==
    [i \in DOMAIN exts |-> NormalizeExtension(exts[i])]
InList(x, list) == \E i \in DOMAIN list : list[i] = x

\* str(file_path.absolute()): the directory's absolute path and the name
AbsDir == <<"/","d","/">>
AbsPath(entry) == [tag |-> "str", chars |-> AbsDir \o entry.name]

(***************************************************************************)
(* The table.  index holds the row labels iterrows yields; df.at[idx, col] *)
(* addresses by label, so it writes every row carrying that label.         *)
(***************************************************************************)
NRows(d) == Len(d.index)
SetAt(d, label, col, value) ==
    [d EXCEPT !.data[col] =
        [i \in DOMAIN d.index |->
            IF d.index[i] = label THEN value ELSE d.data[col][i]]]
\* df[col] = None on a table without the column
AddColumn(d, col) ==
    [columns |-> d.columns \cup {col},
     index |-> d.index,
     data |-> [c \in d.columns \cup {col} |->
                 IF c = col THEN [i \in DOMAIN d.index |-> None]
                 ELSE d.data[c]]]

\* Row labels up to renaming: the first row is 0, a later row repeats a
\* label or takes the next unused one (0,1,2,... is the default RangeIndex).
LabelSeqs(n) ==
    {l \in [1..n -> 0..MaxRows] :
        \A i \in 1..n : \A v \in 0..(l[i] - 1) : \E j \in 1..(i - 1) : l[j] = v}
\* The tables handed in: with or without each of the two columns; the target
\* column, when there, is all absent or all filled by an earlier run.
Tables ==
    UNION { UNION { { [columns |-> cols,
                       index |-> idx,
                       data |-> [c \in cols |->
                                   IF c = "test_idx" THEN ids
                                   ELSE [i \in 1..n |-> prior]]] :
                       idx \in LabelSeqs(n), ids \in [1..n -> Ids],
                       prior \in {None, Str("old")} } :
                    cols \in {{"test_idx", target_col_name}, {"test_idx"},
                              {target_col_name}} } :
            n \in 0..MaxRows }

\* Path.iterdir() yields the entries in an order the file system chooses.
Enumerations(entries) ==
    {o \in [1..Cardinality(entries) -> entries] :
        \A e \in entries : \E i \in DOMAIN o : o[i] = e}

(***************************************************************************)
(* Matching and selection.                                                 *)
(***************************************************************************)
\* base variant, lines 65-68
MatchesBase(entry, pattern) ==
    /\ entry.is_file
    /\ StartsWith(Stem(entry.name), pattern)
    /\ Stem(entry.name) = pattern

\* advanced variant, lines 145-147; exts is the normalized list, an empty
\* one filters nothing
MatchesAdvanced(entry, pattern, exts) ==
    /\ entry.is_file
    /\ Stem(entry.name) = pattern
    /\ (exts = <<>> \/ InList(Lower(Suffix(entry.name)), exts))

NoFile == [name |-> <<>>, is_file |-> FALSE]

\* selecting whatever the directory listed first, whatever the extensions
SelectFirstListed(matching, exts) == matching[1]

\* lines 154-163: the extensions in their order, and for each the first
\* matching file that carries it
RECURSIVE SelectByExtension(_, _)
SelectByExtension(matching, exts) ==
    IF exts = <<>> THEN NoFile
    ELSE LET Carries(e) == Lower(Suffix(e.name)) = Head(exts)
             hits == SelectSeq(matching, Carries)
         IN  IF hits # <<>> THEN hits[1]
             ELSE SelectByExtension(matching, Tail(exts))

\* line 166: sorted(matching_files)[0]
SelectSortedFirst(matching) ==
    CHOOSE f \in {matching[i] : i \in DOMAIN matching} :
        \A i \in DOMAIN matching :
            matching[i] = f \/ LexLess(f.name, matching[i].name)

(***************************************************************************)
(* update_file_paths and update_file_paths_advanced.                       *)
(***************************************************************************)
LocatorIdle ==
    /\ variant = "none"
    /\ df = [columns |-> {}, index |-> <<>>, data |-> EmptyMap]
    /\ df0 = df
    /\ target_dir = [kind |-> "missing", entries |-> {}]
    /\ file_extensions = NoExtensions
    /\ create_column = FALSE
    /\ l_pc = "idle"
    /\ cursor = 1
    /\ updated_count = 0
    /\ raised = "none"
    /\ writes = <<>>

LocatorInit ==
    /\ variant \in {"base", "advanced"}
    /\ df \in Tables
    /\ df0 = df
    /\ target_dir \in Directories
    /\ IF variant = "base"
       THEN file_extensions = NoExtensions /\ create_column = FALSE
       ELSE /\ file_extensions \in ExtensionArgs
            \* create_column is read only when the target column is missing
            /\ create_column \in IF target_col_name \in df.columns
                                THEN {TRUE} ELSE BOOLEAN
    /\ l_pc = "validate"
    /\ cursor = 1
    /\ updated_count = 0
    /\ raised = "none"
    /\ writes = <<>>

locatorArgs == <<variant, df0, target_dir, file_extensions, create_column>>

Fail(exc) ==
    /\ l_pc' = "raised"
    /\ raised' = exc

\* update_file_paths, lines 38-50: the checks, in order
ValidateBase ==
    /\ l_pc = "validate"
    /\ variant = "base"
    /\ IF "test_idx" \notin df.columns THEN Fail("ValueError")
       ELSE IF target_col_name \notin df.columns THEN Fail("ValueError")
       ELSE IF target_dir.kind = "missing" THEN Fail("FileNotFoundError")
       ELSE IF target_dir.kind # "dir" THEN Fail("NotADirectoryError")
       ELSE l_pc' = "loop" /\ UNCHANGED raised
    /\ UNCHANGED <<locatorArgs, df, cursor, updated_count, writes>>
    /\ UNCHANGED <<nestedVars, bridgeVars>>

\* update_file_paths_advanced, lines 114-136: the identifier column, the
\* target column (created when allowed), then the directory's existence
ValidateAdvanced ==
    /\ l_pc = "validate"
    /\ variant = "advanced"
    /\ IF "test_idx" \notin df.columns
       THEN Fail("ValueError") /\ UNCHANGED df
       ELSE IF target_col_name \notin df.columns /\ ~create_column
       THEN Fail("ValueError") /\ UNCHANGED df
       ELSE /\ df' = IF target_col_name \notin df.columns
                     THEN AddColumn(df, target_col_name) ELSE df
            /\ IF target_dir.kind = "missing" THEN Fail("FileNotFoundError")
               ELSE l_pc' = "loop" /\ UNCHANGED raised
    /\ UNCHANGED <<locatorArgs, cursor, updated_count, writes>>
    /\ UNCHANGED <<nestedVars, bridgeVars>>

\* update_file_paths, lines 56-77: one turn of the loop over the rows
ProcessRowBase ==
    /\ l_pc = "loop"
    /\ variant = "base"
    /\ cursor <= NRows(df)
    /\ \E listing \in Enumerations(target_dir.entries) :
          LET pattern == FilePattern(df.data["test_idx"][cursor])
              Matches(e) == MatchesBase(e, pattern)
              matching_files == SelectSeq(listing, Matches)
          IN  IF matching_files # <<>>
              THEN /\ df' = SetAt(df, df.index[cursor], target_col_name,
                                  AbsPath(matching_files[1]))
                   /\ writes' = Append(writes,
                                  [row |-> cursor, file |-> matching_files[1]])
              ELSE UNCHANGED <<df, writes>>
    /\ cursor' = cursor + 1
    /\ UNCHANGED <<locatorArgs, l_pc, updated_count, raised>>
    /\ UNCHANGED <<nestedVars, bridgeVars>>

\* update_file_paths_advanced, lines 138-169: one turn of the loop; listing
\* a path that is not a directory raises NotADirectoryError
ProcessRowAdvanced ==
    /\ l_pc = "loop"
    /\ variant = "advanced"
    /\ cursor <= NRows(df)
    /\ IF target_dir.kind # "dir"
       THEN /\ Fail("NotADirectoryError")
            /\ UNCHANGED <<df, writes, cursor, updated_count>>
       ELSE /\ \E listing \in Enumerations(target_dir.entries) :
                  LET pattern == FilePattern(df.data["test_idx"][cursor])
                      exts == NormalizeExtensions(file_extensions.list)
                      Matches(e) == MatchesAdvanced(e, pattern, exts)
                      matching_files == SelectSeq(listing, Matches)
                      selected == IF exts # <<>>
                                  THEN SelectByExtension(matching_files, exts)
                                  ELSE SelectSortedFirst(matching_files)
                  IN  IF matching_files # <<>> /\ selected # NoFile
                      THEN /\ df' = SetAt(df, df.index[cursor],
                                          target_col_name, AbsPath(selected))
                           /\ updated_count' = updated_count + 1
                           /\ writes' = Append(writes,
                                          [row |-> cursor, file |-> selected])
                      ELSE UNCHANGED <<df, writes, updated_count>>
            /\ cursor' = cursor + 1
            /\ UNCHANGED <<l_pc, raised>>
    /\ UNCHANGED locatorArgs
    /\ UNCHANGED <<nestedVars, bridgeVars>>

\* lines 79 and 172: the loop is over, the table is returned
ReturnTable ==
    /\ l_pc = "loop"
    /\ cursor > NRows(df)
    /\ l_pc' = "returned"
    /\ UNCHANGED <<locatorArgs, df, cursor, updated_count, raised, writes>>
    /\ UNCHANGED <<nestedVars, bridgeVars>>

(***************************************************************************)
(* The three specifications.                                               *)
(***************************************************************************)
NestedInit ==
    /\ n_pc = "call"
    /\ n_data \in Docs
    /\ n_keys \in Paths
    /\ n_result = None

InitNested == NestedInit /\ BridgeIdle /\ LocatorIdle
NextNested == NestedCall
SpecNested == InitNested /\ [][NextNested]_vars

InitBridge == BridgeInit /\ NestedIdle /\ LocatorIdle
NextBridge ==
    \/ ReadInput
    \/ ExtractInput
    \/ BuildBody
    \/ Dispatch
    \/ CheckStatus
    \/ ParseJson
    \/ WriteOutput
SpecBridge == InitBridge /\ [][NextBridge]_vars

InitLocator == LocatorInit /\ NestedIdle /\ BridgeIdle
NextLocator ==
    \/ ValidateBase
    \/ ValidateAdvanced
    \/ ProcessRowBase
    \/ ProcessRowAdvanced
    \/ ReturnTable
SpecLocator == InitLocator /\ [][NextLocator]_vars

(***************************************************************************)
(* Properties of process_yaml_with_api.                                    *)
(***************************************************************************)
\* Every key of the path is present at its depth, in a mapping.
RECURSIVE Resolves(_, _)
Resolves(data, keys) ==
    \/ keys = <<>>
    \/ /\ data.tag = "dict"
       /\ Head(keys) \in DOMAIN data.items
       /\ Resolves(data.items[Head(keys)], Tail(keys))

BridgeRunning ==
    pc \in {"read_input", "extract", "build_body", "dispatch", "check_status",
            "parse_json", "write_output"}

EveryStepSucceeded ==
    /\ input_file.kind = "ok"
    /\ Resolves(input_file.doc, input_keys)
    /\ input_text # None
    /\ Truthy(request_body_template) =>
          TemplateParses(request_body_template, input_text)
    /\ sent # NoRequest
    /\ response # NoResponse
    /\ ~(response.status \in 400..599)
    /\ response.body # NotJson
    /\ output_file.state = "writable"
    /\ output_file.content = create_nested_structure(output_keys, response.body)

\* C1: process_yaml_with_api never raises to its caller: whatever the outcome
\* of each step (input file missing or unreadable, malformed YAML, key path
\* not resolving, template text that no longer parses, network failure, error
\* status, response body that is not JSON, output file not writable), the
\* call can always take its next step until it returns a boolean, no
\* exception leaves it, and it returns True only when every step succeeded.
C1_NeverRaises ==
    /\ pc # "raised"
    /\ escaped = "none"
    /\ BridgeRunning => ENABLED NextBridge
    /\ pc = "done" => ret \in BOOLEAN
    /\ (pc = "done" /\ ret) => EveryStepSucceeded

\* C1 witness: the last step failed (the output file could not be opened),
\* the catch-all clause reported it and the call returned False.
C1_Witness ==
    /\ pc = "done"
    /\ ret = FALSE
    /\ diag = "unexpected"
    /\ output_file.state = "denied"
    /\ response # NoResponse

\* C2: every response whose status is outside 200-299 (1xx and 3xx included)
\* fails the operation: the call returns False and does not use the response
\* as a result (the output document is not written from it).
C2_NonSuccessStatusFails ==
    (/\ pc = "done"
     /\ response # NoResponse
     /\ ~(response.status \in 200..299))
    => /\ ret = FALSE
       /\ output_file.content = Untouched

\* C4: a key path of zero length is invalid for extraction: get_nested_value
\* yields no extracted value for it, and process_yaml_with_api called with an
\* empty input_keys returns False without dispatching the request or writing
\* the output document.
C4_EmptyKeyPathInvalid ==
    input_keys = <<>> =>
       /\ "extracted" \notin {events[i] : i \in DOMAIN events}
       /\ pc \notin {"read_input", "extract"} => input_text = None
       /\ sent = NoRequest
       /\ output_file.content = Untouched
       /\ pc = "done" => ret = FALSE

\* Whether the method is GET, letter case apart.
IsGetAnyCase(m) ==
    /\ Len(m) = 3
    /\ m[1] \in {"g", "G"}
    /\ m[2] \in {"e", "E"}
    /\ m[3] \in {"t", "T"}

\* The caller's query parameters (None standing for none) overlaid with the
\* body's fields.
Overlay(params, body) ==
    LET pk == IF IsDict(params) THEN DOMAIN params.items ELSE {}
    IN  Dict([k \in pk \cup DOMAIN body.items |->
                IF k \in DOMAIN body.items THEN body.items[k]
                ELSE params.items[k]])

\* C8: request dispatch: when the method is GET in any letter case, the query
\* parameters sent are the caller's overlaid with the body's fields (a body
\* field replaces a caller parameter of the same key) and no body is sent;
\* for every other method the body is sent as the JSON payload and the
\* caller's query parameters go alongside, unmodified.
C8_RequestDispatch ==
    [][pc = "dispatch" =>
          IF IsGetAnyCase(api_method)
          THEN /\ sent'.json = NoBody
               /\ sent'.params = Overlay(api_params, request_body)
          ELSE /\ sent'.json = request_body
               /\ sent'.params = api_params
               /\ api_params' = api_params]_vars

\* C8 witness: a lower-case "get" was dispatched with caller parameters text
\* and q and a templated body that also has q; the sent q is the body's.
C8_Witness ==
    /\ sent # NoRequest
    /\ api_method = <<"g","e","t">>
    /\ sent.json = NoBody
    /\ IsDict(sent.params)
    /\ DOMAIN sent.params.items = {"text", "q", "lang"}
    /\ sent.params.items["text"] = Str("old")
    /\ sent.params.items["q"] = request_body.items["q"]

Occurrences(e) == Cardinality({i \in DOMAIN events : events[i] = e})
Before(e1, e2) ==
    \A i \in DOMAIN events :
        events[i] = e2 => \E j \in 1..(i - 1) : events[j] = e1

\* C9: step ordering: the request is dispatched at most once and only after
\* the input document was read and the key path resolved; the output file is
\* opened for writing at most once and only after a response passed the
\* status check and was parsed as JSON; so whenever the call returns False
\* the output location has been neither created nor modified.
C9_StepOrdering ==
    /\ Occurrences("dispatch") <= 1
    /\ Occurrences("open_output") <= 1
    /\ Before("read", "extracted")
    /\ Before("extracted", "dispatch")
    /\ Before("dispatch", "status_ok")
    /\ Before("status_ok", "json_ok")
    /\ Before("json_ok", "open_output")
    /\ sent # NoRequest => Occurrences("dispatch") = 1
    /\ output_file.content # Untouched => Occurrences("open_output") = 1
    /\ (pc = "done" /\ ~ret) => output_file.content = Untouched

\* C9 witness: the request went out, the status check failed, the call
\* returned False with the output left alone.
C9_Witness ==
    /\ pc = "done"
    /\ ret = FALSE
    /\ diag = "api_error"
    /\ response # NoResponse
    /\ Occurrences("dispatch") = 1
    /\ output_file.content = Untouched

(***************************************************************************)
(* Properties of get_nested_value.                                         *)
(***************************************************************************)
\* C3: when a key of the path is absent at its depth, or the value reached
\* before the end of the path is not a mapping, get_nested_value returns its
\* "not found" signal, and no extraction that resolves returns that signal.
C3_NotFoundUnambiguous ==
    (n_pc = "returned" /\ ~Resolves(n_data, n_keys)) =>
       /\ n_result = None
       /\ \A d \in Docs, p \in Paths :
             Resolves(d, p) => get_nested_value(d, p) # n_result

(***************************************************************************)
(* Properties of the File Locator.                                         *)
(***************************************************************************)
Rows == DOMAIN df.index
RowPattern(r) == file_name_prefix \o IntToStr(df0.data["test_idx"][r])
ExtensionFilter ==
    file_extensions.given /\ file_extensions.list # <<>>
NormalizedList == NormalizeExtensions(file_extensions.list)

\* The regular files of the directory named exactly RowPattern(r) that pass
\* the extension filter, when there is one.
Candidates(r) ==
    {e \in target_dir.entries :
        /\ e.is_file
        /\ Stem(e.name) = RowPattern(r)
        /\ ExtensionFilter => InList(Lower(Suffix(e.name)), NormalizedList)}

\* The earliest position of the normalized list whose extension some
\* candidate of row r carries.
EarliestExtension(r) ==
    CHOOSE k \in DOMAIN NormalizedList :
        /\ \E e \in Candidates(r) : Lower(Suffix(e.name)) = NormalizedList[k]
        /\ \A j \in 1..(k - 1) :
              \A e \in Candidates(r) : Lower(Suffix(e.name)) # NormalizedList[j]

WritesOf(r) == {i \in DOMAIN writes : writes[i].row = r}
Processed == {r \in Rows : r < cursor}

\* The precondition checks on the columns pass.
ColumnsAccepted ==
    /\ "test_idx" \in df0.columns
    /\ \/ target_col_name \in df0.columns
       \/ variant = "advanced" /\ create_column

\* C5: in both variants and for every table, one with no rows included, a
\* search directory that does not exist makes the call fail with the
\* not-found error and a path that exists but is no directory makes it fail
\* with the not-a-directory error; the call returns no table.
C5_DirectoryChecked ==
    (l_pc \in {"returned", "raised"} /\ ColumnsAccepted) =>
       /\ target_dir.kind = "missing" =>
             l_pc = "raised" /\ raised = "FileNotFoundError"
       /\ target_dir.kind = "file" =>
             l_pc = "raised" /\ raised = "NotADirectoryError"

\* C6: update_file_paths_advanced with a non-empty extension list: for every
\* row that has a candidate file, exactly one write is made, the file written
\* is a regular file of the directory whose stem is prefix+identifier and
\* whose lower-cased extension is the earliest entry of the normalized list
\* that any candidate carries, whatever order the directory is listed in;
\* right after the row's turn its target cell holds that file's path; a row
\* without candidate gets no write; and the updated-row count is the number
\* of rows so written (it grows by exactly one per such row).
C6_ExtensionPriority ==
    (variant = "advanced" /\ ExtensionFilter /\ l_pc \in {"loop", "returned"})
    => /\ \A r \in Processed :
             IF Candidates(r) = {}
             THEN WritesOf(r) = {}
             ELSE /\ Cardinality(WritesOf(r)) = 1
                  /\ \A i \in WritesOf(r) :
                        /\ writes[i].file \in Candidates(r)
                        /\ Lower(Suffix(writes[i].file.name)) =
                              NormalizedList[EarliestExtension(r)]
                        /\ r = cursor - 1 =>
                              df.data[target_col_name][r] =
                                 AbsPath(writes[i].file)
       /\ updated_count = Cardinality({r \in Processed : Candidates(r) # {}})
       /\ Len(writes) = updated_count

\* C6 witness: the directory holds r_7.csv and r_7.json, the extensions are
\* [".json", ".csv"], and the row of identifier 7 was given r_7.json.
C6_Witness ==
    /\ variant = "advanced"
    /\ l_pc = "returned"
    /\ target_dir.entries = { File(<<"r","_","7",".","c","s","v">>),
                              File(<<"r","_","7",".","j","s","o","n">>) }
    /\ file_extensions =
          Extensions(<< <<".","j","s","o","n">>, <<".","c","s","v">> >>)
    /\ Len(writes) = 1
    /\ df0.data["test_idx"][writes[1].row] = 7
    /\ writes[1].file = File(<<"r","_","7",".","j","s","o","n">>)
    /\ df.data[target_col_name][writes[1].row] =
          AbsPath(File(<<"r","_","7",".","j","s","o","n">>))
    /\ updated_count = 1

\* The target cell of row r as the caller handed it over (absent when the
\* column did not exist yet).
PriorCell(r) ==
    IF target_col_name \in df0.columns THEN df0.data[target_col_name][r]
    ELSE None

\* C7: in both variants, a row whose identifier has no matching file keeps
\* in its target cell the value it had before the call (absent stays
\* absent), the target column is present for every row, and the turns of the
\* other rows, earlier or later, never change that cell.
C7_UnmatchedCellUnchanged ==
    l_pc \in {"loop", "returned"} =>
       /\ target_col_name \in df.columns
       /\ DOMAIN df.data[target_col_name] = Rows
       /\ \A r \in Rows :
             Candidates(r) = {} => df.data[target_col_name][r] = PriorCell(r)

\* C10: whenever either variant raises a precondition error (identifier
\* column missing, target column missing with creation disallowed, search
\* directory missing or not a directory), the caller's table is exactly as
\* it was before the call: no column added, no cell modified.
C10_TableUnchangedOnError ==
    l_pc = "raised" => df = df0

====
